---- MODULE Spec2Model ----
(***************************************************************************)
(* Interactive 3D chair viewer: the Camera Animator (cameraAnimation.js),  *)
(* the Interaction Manager (interaction.js), the Scene Manager             *)
(* (initScene.js) and the application driver (main.js) as one state        *)
(* machine.  Every DOM callback, timer callback and frame callback is one  *)
(* atomic action, as the page runs them on one thread.                     *)
(*                                                                         *)
(* Conventions                                                             *)
(*  - angles are whole degrees (the code keeps radians); atan2 yields an    *)
(*    angle in (-180, 180], currentAngle itself is never wrapped;          *)
(*  - lengths are hundredths of a scene unit; the camera is kept in        *)
(*    cylinder coordinates about the target: angle, horizontal distance r  *)
(*    and absolute height y;                                               *)
(*  - times are milliseconds;                                              *)
(*  - 0 stands for null in interactionTimeout, animationId, hoveredObject  *)
(*    and selectedObject (timer ids, frame ids and parts are positive);    *)
(*  - a timer or frame id handed out by the browser is modelled as the     *)
(*    least id that no variable currently holds (browser ids are never     *)
(*    reused, so only their distinctness matters).                         *)
(***************************************************************************)
EXTENDS Integers, Sequences, FiniteSets, TLC

VARIABLES
    \* ---- CameraAnimator fields
    isAutoRotating, userInteracting, interactionTimeout,
    wasAutoRotatingBeforeInteraction, isMouseDown, isDragging,
    currentAngle, radius, height,
    \* ---- objects the animator shares with the page
    camera,            \* camera.position, cylinder coordinates about target
    controlsEnabled,   \* controls.enabled
    timers,            \* pending setTimeout callbacks, oldest first
    caListeners,       \* listeners the animator has attached
    toggleText,        \* toggleButton.textContent
    toggleClass,       \* toggleButton.classList has 'user-interacting'
    sinceRelease,      \* a release armed a resume timer and the user has
                       \* produced no input since (the pointer's history)
    controlsTarget,    \* controls.target.y (the orbit controls pan it)
    sinceReset,        \* a reset animation has completed and the user has
                       \* produced no input since
    \* ---- InteractionManager fields and the meshes it tints
    hoveredObject, selectedObject, material, scale, userData,
    panelHidden, partName, imListeners,
    pointer,           \* the latest pointer event on the canvas and the
                       \* part its ray hit (0: none)
    firstMaterial,     \* the material object the first part carried when
                       \* it first became hoveredObject ("none": not yet)
    \* ---- App fields and the page's frame queue
    pc,                \* where init() stands
    modules,           \* the module fields of App that are not null
    isRunning, animationId,
    rafQueue,          \* pending requestAnimationFrame callbacks
    resizeListener,    \* the window resize listener is attached
    destroyed,         \* destroy() has run
    loadingHidden, errorShown,
    frameLog,          \* the steps the latest frame ran, in order
    \* ---- the window and what the Scene Manager sizes by it
    viewport,          \* window.innerWidth, window.innerHeight
    aspect,            \* camera.aspect, in thousandths (0: no camera yet)
    rendererSize       \* the size last given to renderer.setSize

caVars == <<isAutoRotating, userInteracting, interactionTimeout,
            wasAutoRotatingBeforeInteraction, isMouseDown, isDragging,
            currentAngle, radius, height, camera, controlsEnabled, timers,
            caListeners, toggleText, toggleClass, sinceRelease,
            controlsTarget, sinceReset>>

imVars == <<hoveredObject, selectedObject, material, scale, userData,
            panelHidden, partName, imListeners, pointer, firstMaterial>>

smVars == <<viewport, aspect, rendererSize>>

appVars == <<pc, modules, isRunning, animationId, rafQueue, resizeListener,
             destroyed, loadingHidden, errorShown, frameLog, smVars>>

vars == <<caVars, imVars, appVars>>

----------------------------------------------------------------------------
\* Bounds of the model

\* pending resume timers the page is allowed to hold at once
MaxTimers == 2

\* currentAngle is not advanced beyond this many degrees
MaxAngle == 450

\* number of interactive meshes
NumParts == 2

\* a hovered mesh's hoverTime is not advanced beyond this many milliseconds
MaxHoverTime == 1727

\* reset animations in flight at once
MaxResets == 1

----------------------------------------------------------------------------
\* Program constants

rotationSpeed == 30

PulseLimit == 6280

TargetY == 100

InitialCamera == [angle |-> 45, r |-> 707, y |-> 300]

\* event.button values delivered: left and right
Buttons == {0, 2}

\* frame lengths delivered by the clock (ms): 1727 ms is eleven eighths of
\* the breathing period and eleven quarters of the pulse period
DeltaTimes == {1727}

\* frame lengths used when only the camera animator is exercised:
\* 1500 ms is 45 degrees at 30 degrees per second
CamDeltaTimes == {1500, 3000}

\* camera positions the orbit controls can leave the camera at
ControlPositions ==
    { InitialCamera,
      [angle |-> 135, r |-> 400, y |-> 200],
      [angle |-> -90, r |-> 707, y |-> 200] }

\* animateToPosition's duration (ms)
ResetDuration == 1000

\* Date.now() - startTime at the frames of a reset animation: a frame in
\* the millisecond the animation started in and a frame once the duration
\* has elapsed (the ease-out is then 0 or 1, where lerpVectors is exact in
\* any coordinates)
ResetElapsed == {0, 1000}

\* heights the orbit controls can leave their target at
ControlTargets == {TargetY, 150}

\* the window's inner size when the page loads, and the sizes the user can
\* give it (width, height, in pixels)
InitialViewport == <<800, 600>>
Viewports == {<<800, 600>>, <<1024, 768>>, <<600, 800>>}

----------------------------------------------------------------------------
\* Pure helpers

\* Math.atan2 of a direction at a degrees: the angle in (-180, 180]
Atan2Deg(a) ==
    LET m == a % 360 IN IF m > 180 THEN m - 360 ELSE m

\* window.innerWidth / window.innerHeight, in thousandths
Aspect(size) == (size[1] * 1000) \div size[2]

\* floor of the square root
ISqrt(n) == CHOOSE s \in 0..2000 : s * s <= n /\ (s + 1) * (s + 1) > n

\* camera.position.distanceTo(target), the distance in space
DistanceToTarget(c) == ISqrt(c.r * c.r + (c.y - TargetY) * (c.y - TargetY))

\* calculateInitialAngle / storeInitialState, evaluated in the constructor
initialAngle == Atan2Deg(InitialCamera.angle)
initialRadius == DistanceToTarget(InitialCamera)
initialHeight == InitialCamera.y

TimerIds == {timers[i].id : i \in 1..Len(timers)}

\* setTimeout's return value
FreshTimerId ==
    CHOOSE n \in 1..(Len(timers) + 2) :
        n \notin TimerIds /\ n # interactionTimeout
        /\ \A k \in 1..(n - 1) : k \in TimerIds \/ k = interactionTimeout

FrameIds == {f.id : f \in rafQueue}

\* requestAnimationFrame's return value
FreshFrameId ==
    CHOOSE n \in 1..(Cardinality(rafQueue) + 2) :
        n \notin FrameIds /\ n # animationId
        /\ \A k \in 1..(n - 1) : k \in FrameIds \/ k = animationId

\* clearTimeout(id)
ClearTimeout(ts, id) == SelectSeq(ts, LAMBDA t : t.id # id)

\* one full rotation period, 360 / rotationSpeed seconds, in milliseconds
FullPeriod == (360 * 1000) \div rotationSpeed

\* the degrees update() turns in deltaTime milliseconds
RotationOf(deltaTime) == (rotationSpeed * deltaTime) \div 1000

AllCaListeners ==
    { "toggle.click", "reset.click",
      "controls.start", "controls.end", "controls.change",
      "canvas.mousedown", "canvas.mousemove", "canvas.mouseup",
      "canvas.mouseleave" }

----------------------------------------------------------------------------
\* CameraAnimator

\* updateCurrentAngle(): the bookkeeping read back from the camera
UpdateCurrentAngle(c) ==
    /\ currentAngle' = Atan2Deg(c.angle)
    /\ radius' = c.r
    /\ height' = c.y

\* onMouseDown(event)
OnMouseDown(button) ==
    /\ "canvas.mousedown" \in caListeners
    /\ IF button # 0
       THEN UNCHANGED caVars
       ELSE /\ isMouseDown' = TRUE
            /\ isDragging' = FALSE
            /\ sinceRelease' = FALSE
            /\ sinceReset' = FALSE
            /\ IF isAutoRotating
               THEN /\ wasAutoRotatingBeforeInteraction' = TRUE
                    /\ isAutoRotating' = FALSE
                    /\ userInteracting' = TRUE
                    /\ timers' = IF interactionTimeout # 0
                                 THEN ClearTimeout(timers, interactionTimeout)
                                 ELSE timers
                    /\ interactionTimeout' = 0
                    /\ controlsEnabled' = TRUE
                    /\ toggleText' = "Resume Rotation"
                    /\ toggleClass' = TRUE
               ELSE UNCHANGED <<wasAutoRotatingBeforeInteraction,
                                isAutoRotating, userInteracting, timers,
                                interactionTimeout, controlsEnabled,
                                toggleText, toggleClass>>
            /\ UNCHANGED <<currentAngle, radius, height, camera, caListeners,
                           controlsTarget>>
    /\ UNCHANGED <<imVars, appVars>>

\* onMouseMove(event), the animator's listener
OnMouseMove ==
    /\ "canvas.mousemove" \in caListeners
    /\ sinceRelease' = FALSE
    /\ sinceReset' = FALSE
    /\ IF isMouseDown
       THEN /\ isDragging' = TRUE
            /\ timers' = IF interactionTimeout # 0
                         THEN ClearTimeout(timers, interactionTimeout)
                         ELSE timers
            /\ interactionTimeout' = 0
       ELSE UNCHANGED <<isDragging, timers, interactionTimeout>>
    /\ UNCHANGED <<isAutoRotating, userInteracting,
                   wasAutoRotatingBeforeInteraction, isMouseDown,
                   currentAngle, radius, height, camera, controlsEnabled,
                   caListeners, toggleText, toggleClass, controlsTarget>>
    /\ UNCHANGED <<imVars, appVars>>

\* the body of onMouseUp for the left button: arms the resume timer
MouseUpBody ==
    /\ (userInteracting /\ wasAutoRotatingBeforeInteraction)
           => Len(timers) < MaxTimers
    /\ isMouseDown' = FALSE
    /\ sinceReset' = FALSE
    /\ IF userInteracting /\ wasAutoRotatingBeforeInteraction
       THEN /\ timers' = Append(timers, [id |-> FreshTimerId, kind |-> "mouseUp"])
            /\ interactionTimeout' = FreshTimerId
            /\ sinceRelease' = TRUE
       ELSE UNCHANGED <<timers, interactionTimeout, sinceRelease>>
    /\ UNCHANGED <<isAutoRotating, userInteracting,
                   wasAutoRotatingBeforeInteraction, isDragging,
                   currentAngle, radius, height, camera, controlsEnabled,
                   caListeners, toggleText, toggleClass, controlsTarget>>

\* onMouseUp(event)
OnMouseUp(button) ==
    /\ "canvas.mouseup" \in caListeners
    /\ IF button # 0 THEN UNCHANGED caVars ELSE MouseUpBody
    /\ UNCHANGED <<imVars, appVars>>

\* onMouseLeave(event), the animator's listener
OnMouseLeave ==
    /\ "canvas.mouseleave" \in caListeners
    /\ IF isMouseDown THEN MouseUpBody ELSE UNCHANGED caVars
    /\ UNCHANGED <<imVars, appVars>>

\* onUserInteractionStart(), the controls' 'start' event
OnUserInteractionStart ==
    /\ "controls.start" \in caListeners
    /\ IF ~isAutoRotating
       THEN /\ sinceRelease' = FALSE
            /\ UNCHANGED <<isAutoRotating, userInteracting, interactionTimeout,
                           wasAutoRotatingBeforeInteraction, currentAngle,
                           radius, height, controlsEnabled, timers,
                           toggleText, toggleClass>>
       ELSE /\ userInteracting' = TRUE
            /\ timers' = IF interactionTimeout # 0
                         THEN ClearTimeout(timers, interactionTimeout)
                         ELSE timers
            /\ interactionTimeout' = 0
            /\ wasAutoRotatingBeforeInteraction' = isAutoRotating
            /\ isAutoRotating' = FALSE
            /\ UpdateCurrentAngle(camera)
            /\ controlsEnabled' = TRUE
            /\ toggleText' = "Resume Rotation"
            /\ toggleClass' = TRUE
            /\ sinceRelease' = FALSE
    /\ sinceReset' = FALSE
    /\ UNCHANGED <<isMouseDown, isDragging, camera, caListeners,
                   controlsTarget>>
    /\ UNCHANGED <<imVars, appVars>>

\* onUserInteractionEnd(), the controls' 'end' event
OnUserInteractionEnd ==
    /\ "controls.end" \in caListeners
    /\ userInteracting => Len(timers) < MaxTimers
    /\ IF ~userInteracting
       THEN UNCHANGED <<timers, interactionTimeout, sinceRelease>>
       ELSE /\ timers' = Append(timers, [id |-> FreshTimerId, kind |-> "end"])
            /\ interactionTimeout' = FreshTimerId
            /\ sinceRelease' = wasAutoRotatingBeforeInteraction
    /\ sinceReset' = FALSE
    /\ UNCHANGED <<isAutoRotating, userInteracting,
                   wasAutoRotatingBeforeInteraction, isMouseDown, isDragging,
                   currentAngle, radius, height, camera, controlsEnabled,
                   caListeners, toggleText, toggleClass, controlsTarget>>
    /\ UNCHANGED <<imVars, appVars>>

\* onUserInteractionChange(), the controls' 'change' event; the controls
\* dispatch it from controls.update() after they have moved the camera to
\* newCamera and, panning, their target (they move them only while enabled)
OnUserInteractionChange(newCamera) ==
    /\ "controls.change" \in caListeners
    /\ camera' = IF controlsEnabled THEN newCamera ELSE camera
    /\ \E newTarget \in ControlTargets :
          controlsTarget' = IF controlsEnabled THEN newTarget
                            ELSE controlsTarget
    /\ sinceReset' = FALSE
    /\ IF userInteracting /\ interactionTimeout # 0
       THEN /\ timers' = ClearTimeout(timers, interactionTimeout)
            /\ interactionTimeout' = 0
       ELSE UNCHANGED <<timers, interactionTimeout>>
    /\ IF userInteracting
       THEN UpdateCurrentAngle(camera')
       ELSE UNCHANGED <<currentAngle, radius, height>>
    /\ UNCHANGED <<isAutoRotating, userInteracting,
                   wasAutoRotatingBeforeInteraction, isMouseDown, isDragging,
                   controlsEnabled, caListeners, toggleText, toggleClass,
                   sinceRelease>>
    /\ UNCHANGED <<imVars, appVars>>

\* the resume callback of onMouseUp leaving userInteracting set
MouseUpTimerCallback_KeepsInteracting ==
    /\ isDragging' = FALSE
    /\ isAutoRotating' = TRUE
    /\ UpdateCurrentAngle(camera)
    /\ toggleText' = "Pause Rotation"
    /\ toggleClass' = FALSE
    /\ UNCHANGED <<userInteracting, wasAutoRotatingBeforeInteraction>>

\* the callback onMouseUp hands to setTimeout
MouseUpTimerCallback ==
    /\ userInteracting' = FALSE
    /\ isDragging' = FALSE
    /\ isAutoRotating' = TRUE
    /\ UpdateCurrentAngle(camera)
    /\ toggleText' = "Pause Rotation"
    /\ toggleClass' = FALSE
    /\ UNCHANGED wasAutoRotatingBeforeInteraction

\* the callback onUserInteractionEnd hands to setTimeout
EndTimerCallback ==
    /\ userInteracting' = FALSE
    /\ IF wasAutoRotatingBeforeInteraction
       THEN /\ isAutoRotating' = TRUE
            /\ UpdateCurrentAngle(camera)
            /\ toggleText' = "Pause Rotation"
            /\ toggleClass' = FALSE
       ELSE UNCHANGED <<isAutoRotating, currentAngle, radius, height,
                        toggleText, toggleClass>>
    /\ UNCHANGED <<isDragging, wasAutoRotatingBeforeInteraction>>

\* the browser runs the oldest pending timer (all have the same delay)
TimerFire ==
    /\ timers # <<>>
    /\ timers' = Tail(timers)
    /\ IF Head(timers).kind = "mouseUp"
       THEN MouseUpTimerCallback
       ELSE EndTimerCallback
    /\ UNCHANGED <<interactionTimeout, isMouseDown, camera, controlsEnabled,
                   caListeners, sinceRelease, controlsTarget, sinceReset>>
    /\ UNCHANGED <<imVars, appVars>>

\* toggleAutoRotation(), with pauseAutoRotation() and resumeAutoRotation()
ToggleAutoRotation ==
    /\ "toggle.click" \in caListeners
    /\ timers' = IF interactionTimeout # 0
                 THEN ClearTimeout(timers, interactionTimeout)
                 ELSE timers
    /\ interactionTimeout' = 0
    /\ userInteracting' = FALSE
    /\ isAutoRotating' = ~isAutoRotating
    /\ UpdateCurrentAngle(camera)
    /\ IF isAutoRotating
       THEN /\ controlsEnabled' = TRUE
            /\ toggleClass' = FALSE
            /\ toggleText' = "Resume Rotation"
       ELSE /\ toggleText' = "Pause Rotation"
            /\ UNCHANGED <<controlsEnabled, toggleClass>>
    /\ wasAutoRotatingBeforeInteraction' = isAutoRotating'
    /\ sinceRelease' = FALSE
    /\ sinceReset' = FALSE
    /\ UNCHANGED <<isMouseDown, isDragging, camera, caListeners,
                   controlsTarget>>
    /\ UNCHANGED <<imVars, appVars>>

\* Math.min(elapsed / duration, 1), in thousandths
Progress(elapsed) ==
    LET q == (elapsed * 1000) \div ResetDuration
    IN  IF q < 1000 THEN q ELSE 1000

\* 1 - Math.pow(1 - progress, 3), in thousandths
EaseOut(progress) ==
    1000 - ((1000 - progress) * (1000 - progress) * (1000 - progress))
               \div 1000000

\* Vector3.lerpVectors(v1, v2, alpha), alpha in thousandths; exact at the
\* end points, the only ones ResetElapsed produces
LerpVectors(v1, v2, alpha) ==
    [angle |-> v1.angle + ((v2.angle - v1.angle) * alpha) \div 1000,
     r |-> v1.r + ((v2.r - v1.r) * alpha) \div 1000,
     y |-> v1.y + ((v2.y - v1.y) * alpha) \div 1000]

\* the pending frame requests of reset animations
ResetAnims == {f \in rafQueue : f.cb = "reset"}

\* resetCamera(): animateToPosition(initialPosition, ...) runs its first
\* animate() at once, with elapsed 0, and requests a frame
ResetCamera ==
    /\ "reset.click" \in caListeners
    /\ Cardinality(ResetAnims) < MaxResets
    /\ camera' = LerpVectors(camera, InitialCamera, EaseOut(Progress(0)))
    /\ rafQueue' = rafQueue \cup
                     {[id |-> FreshFrameId, cb |-> "reset", start |-> camera]}
    /\ sinceReset' = FALSE
    /\ UNCHANGED <<isAutoRotating, userInteracting, interactionTimeout,
                   wasAutoRotatingBeforeInteraction, isMouseDown, isDragging,
                   currentAngle, radius, height, controlsEnabled, timers,
                   caListeners, toggleText, toggleClass, sinceRelease,
                   controlsTarget>>
    /\ UNCHANGED <<pc, modules, isRunning, animationId, resizeListener,
                   destroyed, loadingHidden, errorShown, frameLog, smVars>>
    /\ UNCHANGED imVars

\* resetCamera's onComplete: the bookkeeping takes the stored initial
\* values, the controls' target is put back and controls.update() runs.
\* changed says that update() finds the camera moved and dispatches
\* 'change', which runs onUserInteractionChange() before onComplete returns
ResetComplete(changed) ==
    /\ controlsTarget' = TargetY
    /\ IF changed /\ "controls.change" \in caListeners /\ userInteracting
       THEN /\ timers' = IF interactionTimeout # 0
                         THEN ClearTimeout(timers, interactionTimeout)
                         ELSE timers
            /\ interactionTimeout' = 0
            /\ UpdateCurrentAngle(camera')
       ELSE /\ currentAngle' = initialAngle
            /\ radius' = initialRadius
            /\ height' = initialHeight
            /\ UNCHANGED <<timers, interactionTimeout>>

\* the browser runs the frame request of a reset animation: animate() in
\* animateToPosition, elapsed after the animation started
ResetFrame(elapsed) ==
    /\ \E f \in ResetAnims :
          /\ camera' = LerpVectors(f.start, InitialCamera,
                                   EaseOut(Progress(elapsed)))
          /\ IF Progress(elapsed) < 1000
             THEN /\ rafQueue' = (rafQueue \ {f})
                                   \cup {[f EXCEPT !.id = FreshFrameId]}
                  /\ UNCHANGED <<currentAngle, radius, height, timers,
                                 interactionTimeout, controlsTarget,
                                 sinceReset>>
             ELSE /\ rafQueue' = rafQueue \ {f}
                  /\ \E changed \in BOOLEAN :
                        /\ changed => camera' # camera
                        /\ ResetComplete(changed)
                  /\ sinceReset' = TRUE
    /\ UNCHANGED <<isAutoRotating, userInteracting,
                   wasAutoRotatingBeforeInteraction, isMouseDown, isDragging,
                   controlsEnabled, caListeners, toggleText, toggleClass,
                   sinceRelease>>
    /\ UNCHANGED <<pc, modules, isRunning, animationId, resizeListener,
                   destroyed, loadingHidden, errorShown, frameLog, smVars>>
    /\ UNCHANGED imVars

\* update()'s guard without its test of the mouse button
AutoRotationActive_IgnoresMouse == isAutoRotating /\ ~userInteracting

\* the guard of update()'s auto-rotation branch
AutoRotationActive == isAutoRotating /\ ~userInteracting /\ ~isMouseDown

\* update(deltaTime): what it does to the animator, the camera and the
\* controls.  In the manual branch controls.update() runs; the camera
\* movement and the 'change' event it may produce are OnUserInteractionChange.
CameraUpdate(deltaTime) ==
    IF AutoRotationActive
    THEN /\ controlsEnabled' = FALSE
         /\ currentAngle' = currentAngle + RotationOf(deltaTime)
         /\ camera' = [angle |-> Atan2Deg(currentAngle'), r |-> radius,
                       y |-> height]
    ELSE /\ controlsEnabled' = TRUE
         /\ UNCHANGED <<currentAngle, camera>>

\* update() would carry currentAngle beyond the bound
AngleCapped(deltaTime) ==
    AutoRotationActive /\ currentAngle + RotationOf(deltaTime) > MaxAngle

\* the animator's variables update() never writes
caUpdateRest ==
    <<isAutoRotating, userInteracting, interactionTimeout,
      wasAutoRotatingBeforeInteraction, isMouseDown, isDragging, radius,
      height, timers, caListeners, toggleText, toggleClass, sinceRelease,
      controlsTarget, sinceReset>>

\* one call of update(deltaTime) from the frame loop
Update(deltaTime) ==
    /\ ~AngleCapped(deltaTime)
    /\ CameraUpdate(deltaTime)
    /\ UNCHANGED <<caUpdateRest, imVars, appVars>>

\* destroy(): what it does to the animator's timer and listeners
CameraDestroy ==
    /\ timers' = IF interactionTimeout # 0
                 THEN ClearTimeout(timers, interactionTimeout)
                 ELSE timers
    /\ caListeners' = caListeners \ AllCaListeners

\* the animator's variables destroy() never writes
caDestroyRest ==
    <<isAutoRotating, userInteracting, interactionTimeout,
      wasAutoRotatingBeforeInteraction, isMouseDown, isDragging,
      currentAngle, radius, height, camera, controlsEnabled, toggleText,
      toggleClass, sinceRelease, controlsTarget, sinceReset>>

\* one call of destroy() on the animator
Destroy ==
    /\ caListeners # {}
    /\ CameraDestroy
    /\ UNCHANGED <<caDestroyRest, imVars, appVars>>

----------------------------------------------------------------------------
\* InteractionManager

Parts == 1..NumParts

\* userData.name of the meshes, in the order createChair() builds them
DisplayName(p) ==
    IF p = 1 THEN "Chair Seat"
    ELSE IF p = 2 THEN "Chair Backrest" ELSE "Backrest Support"

\* the material object a mesh is built with: one shared per material kind
BaseMaterial == [ref |-> "base", emissive |-> "000000", intensity |-> 100]

\* originalMaterials.get(uuid): the clone storeMaterials() took at startup
OriginalMaterial(p) ==
    [ref |-> "original", emissive |-> "000000", intensity |-> 100]

\* the fresh clones applyHoverEffect and applySelectionEffect tint
HoverMaterial(p) ==
    [OriginalMaterial(p) EXCEPT !.ref = "clone", !.emissive = "4444FF",
                                !.intensity = 40]
SelectionMaterial(p) ==
    [OriginalMaterial(p) EXCEPT !.ref = "clone", !.emissive = "4444FF",
                                !.intensity = 50]

\* the scale every mesh is built with, in ten-thousandths
UnitScale == 10000

\* Math.sin, in ten-thousandths, of an angle of n eighths of pi*2
\* (n quarter-pi steps)
SinTable == <<0, 7071, 10000, 7071, 0, -7071, -10000, -7071>>
Sin(n) == SinTable[(n % 8) + 1]

\* quarter-pi steps of t * 0.005 rad and of t * 0.01 rad (157 ms * 0.005
\* is a quarter of pi)
BreathPhase(t) == t \div 157
PulsePhase(t) == (2 * t) \div 157

\* 1 + sin(pulseTime * 0.01) * 0.05 and 1.05 + sin(hoverTime * 0.005) * 0.01
PulseScale(t) == 10000 + (Sin(PulsePhase(t)) * 5) \div 100
BreathScale(t) == 10500 + Sin(BreathPhase(t)) \div 100

\* Vector3.multiplyScalar on a uniform scale
MultiplyScalar(v, k) == (v * k) \div 10000

\* the manager's fields and the meshes, as one value the methods transform
IMState ==
    [hoveredObject |-> hoveredObject, selectedObject |-> selectedObject,
     material |-> material, scale |-> scale, userData |-> userData,
     panelHidden |-> panelHidden, partName |-> partName]

\* userData.originalScale || new Vector3(1, 1, 1)
OriginalScaleOr1(s, p) ==
    IF s.userData[p].originalScale # 0 THEN s.userData[p].originalScale
    ELSE UnitScale

\* if (userData.originalScale) scale.copy(userData.originalScale)
RestoreScale(s, p) ==
    IF s.userData[p].originalScale # 0
    THEN [s EXCEPT !.scale[p] = s.userData[p].originalScale]
    ELSE s

\* if (!userData.originalScale) userData.originalScale = scale.clone()
StoreScale(s, p) ==
    IF s.userData[p].originalScale = 0
    THEN [s EXCEPT !.userData[p].originalScale = s.scale[p]]
    ELSE s

\* clearHover(); the canvas cursor style it resets is not modelled
ClearHover(s) ==
    LET h == s.hoveredObject
    IN  IF h # 0 /\ h # s.selectedObject
        THEN LET a == [s EXCEPT !.material[h] = OriginalMaterial(h)]
                 b == RestoreScale(a, h)
             IN  [b EXCEPT !.userData[h].hovering = FALSE,
                           !.hoveredObject = 0]
        ELSE s

\* applyHoverEffect tinting the stored original itself instead of a clone
ApplyHoverEffect_NoClone(s, o) ==
    IF o = s.selectedObject THEN s
    ELSE LET a == [s EXCEPT !.material[o] =
                       [OriginalMaterial(o) EXCEPT !.emissive = "4444FF",
                                                   !.intensity = 40]]
             b == StoreScale(a, o)
         IN  [b EXCEPT !.scale[o] = MultiplyScalar(b.scale[o], 10500),
                       !.userData[o].hovering = TRUE,
                       !.userData[o].hoverTime = 0]

\* applyHoverEffect storing the original scale after enlarging the mesh
ApplyHoverEffect_ScaleFirst(s, o) ==
    IF o = s.selectedObject THEN s
    ELSE LET a == [s EXCEPT !.material[o] = HoverMaterial(o),
                            !.scale[o] = MultiplyScalar(s.scale[o], 10500)]
             b == StoreScale(a, o)
         IN  [b EXCEPT !.userData[o].hovering = TRUE,
                       !.userData[o].hoverTime = 0]

\* applyHoverEffect(object)
ApplyHoverEffect(s, o) ==
    IF o = s.selectedObject THEN s
    ELSE LET a == [s EXCEPT !.material[o] = HoverMaterial(o)]
             b == StoreScale(a, o)
         IN  [b EXCEPT !.scale[o] = MultiplyScalar(b.scale[o], 10500),
                       !.userData[o].hovering = TRUE,
                       !.userData[o].hoverTime = 0]

\* handleHover taking a new hover target without clearing the previous one
HandleHover_NoClear(s, hit) ==
    IF hit # 0
    THEN IF s.hoveredObject # hit
         THEN ApplyHoverEffect([s EXCEPT !.hoveredObject = hit], hit)
         ELSE s
    ELSE ClearHover(s)

\* handleHover(), hit being the nearest intersected part or 0
HandleHover(s, hit) ==
    IF hit # 0
    THEN IF s.hoveredObject # hit
         THEN LET a == ClearHover(s)
                  b == [a EXCEPT !.hoveredObject = hit]
              IN  ApplyHoverEffect(b, hit)
         ELSE s
    ELSE ClearHover(s)

\* applySelectionEffect leaving the hovering flag as it finds it
ApplySelectionEffect_KeepsHovering(s, o) ==
    [s EXCEPT !.material[o] = SelectionMaterial(o)]

\* applySelectionEffect(object)
ApplySelectionEffect(s, o) ==
    [s EXCEPT !.material[o] = SelectionMaterial(o),
              !.userData[o].hovering = FALSE]

\* clearSelectionEffect leaving the selection material on the mesh
ClearSelectionEffect_KeepsMaterial(s, o) ==
    LET b == RestoreScale(s, o)
    IN  [b EXCEPT !.userData[o].hovering = FALSE]

\* clearSelectionEffect(object)
ClearSelectionEffect(s, o) ==
    LET a == [s EXCEPT !.material[o] = OriginalMaterial(o)]
        b == RestoreScale(a, o)
    IN  [b EXCEPT !.userData[o].hovering = FALSE]

\* addPulseAnimation(object)
AddPulseAnimation(s, o) ==
    LET a == StoreScale(s, o)
    IN  [a EXCEPT !.userData[o].pulsing = TRUE, !.userData[o].pulseTime = 0]

\* removePulseAnimation restoring the scale but leaving the pulsing flag set
RemovePulseAnimation_KeepsFlag(s, o) ==
    IF s.userData[o].pulsing THEN RestoreScale(s, o) ELSE s

\* removePulseAnimation(object)
RemovePulseAnimation(s, o) ==
    IF s.userData[o].pulsing
    THEN RestoreScale([s EXCEPT !.userData[o].pulsing = FALSE], o)
    ELSE s

\* hidePartInfo() and showPartInfo(object)
HidePartInfo(s) == [s EXCEPT !.panelHidden = TRUE]
ShowPartInfo(s, o) ==
    [s EXCEPT !.partName = DisplayName(o), !.panelHidden = FALSE]

\* deselectObject without the hidePartInfo() call it ends with
DeselectObject_KeepsPanel(s) ==
    LET o == s.selectedObject
    IN  IF o # 0
        THEN LET a == ClearSelectionEffect(s, o)
                 b == RemovePulseAnimation(a, o)
             IN  [b EXCEPT !.selectedObject = 0]
        ELSE s

\* deselectObject()
DeselectObject(s) ==
    LET o == s.selectedObject
        t == IF o # 0
             THEN LET a == ClearSelectionEffect(s, o)
                      b == RemovePulseAnimation(a, o)
                  IN  [b EXCEPT !.selectedObject = 0]
             ELSE s
    IN  HidePartInfo(t)

\* selectObject without the deselectObject() call it starts with
SelectObject_NoDeselect(s, o) ==
    LET b == [s EXCEPT !.selectedObject = o]
        c == ApplySelectionEffect(b, o)
        d == ShowPartInfo(c, o)
    IN  AddPulseAnimation(d, o)

\* selectObject(object)
SelectObject(s, o) ==
    LET a == DeselectObject(s)
        b == [a EXCEPT !.selectedObject = o]
        c == ApplySelectionEffect(b, o)
        d == ShowPartInfo(c, o)
    IN  AddPulseAnimation(d, o)

\* handleClick(), hit being the nearest intersected part or 0
HandleClick(s, hit) ==
    IF hit # 0 THEN SelectObject(s, hit) ELSE DeselectObject(s)

\* the body of updatePulseAnimations' forEach for one part
UpdatePart(s, p, deltaTime) ==
    LET a == IF s.userData[p].pulsing
             THEN LET t == s.userData[p].pulseTime + deltaTime
                      b == [s EXCEPT !.userData[p].pulseTime = t,
                                     !.scale[p] =
                                         MultiplyScalar(OriginalScaleOr1(s, p),
                                                        PulseScale(t))]
                  IN  IF t > PulseLimit THEN RemovePulseAnimation(b, p) ELSE b
             ELSE s
    IN  IF a.userData[p].hovering /\ ~a.userData[p].pulsing
        THEN LET t == a.userData[p].hoverTime + deltaTime
             IN  [a EXCEPT !.userData[p].hoverTime = t,
                           !.scale[p] =
                               MultiplyScalar(OriginalScaleOr1(a, p),
                                              BreathScale(t))]
        ELSE a

RECURSIVE UpdateParts(_, _, _)
UpdateParts(s, p, deltaTime) ==
    IF p > NumParts THEN s
    ELSE UpdateParts(UpdatePart(s, p, deltaTime), p + 1, deltaTime)

\* update(deltaTime) = updatePulseAnimations(deltaTime)
UpdatePulseAnimations(s, deltaTime) == UpdateParts(s, 1, deltaTime)

\* the manager's fields take the values of s
SetIMState(s) ==
    /\ hoveredObject' = s.hoveredObject
    /\ selectedObject' = s.selectedObject
    /\ material' = s.material
    /\ scale' = s.scale
    /\ userData' = s.userData
    /\ panelHidden' = s.panelHidden
    /\ partName' = s.partName

\* the listeners setupEventListeners() attaches: arrow functions
AttachedIMListeners ==
    { <<"canvas.mousemove", "arrow">>, <<"canvas.click", "arrow">>,
      <<"close.click", "arrow">>, <<"canvas.mouseleave", "arrow">> }

\* the listeners destroy() asks to remove: the prototype's methods
RemovedIMListeners ==
    { <<"canvas.mousemove", "onMouseMove">>, <<"canvas.click", "onMouseClick">>,
      <<"canvas.mouseleave", "clearHover">>, <<"close.click", "hidePartInfo">> }

Listens(type) == \E l \in imListeners : l[1] = type

\* an update would carry some hoverTime beyond the bound
HoverTimeCapped(deltaTime) ==
    \E p \in Parts :
        /\ userData[p].hovering
        /\ userData[p].hoverTime + deltaTime > MaxHoverTime

\* onMouseMove(event), the manager's listener
IMMouseMove(hit) ==
    /\ Listens("canvas.mousemove")
    /\ SetIMState(HandleHover(IMState, hit))
    /\ UNCHANGED <<pointer, firstMaterial, imListeners, caVars, appVars>>

\* onMouseClick(event)
IMMouseClick(hit) ==
    /\ Listens("canvas.click")
    /\ SetIMState(HandleClick(IMState, hit))
    /\ UNCHANGED <<pointer, firstMaterial, imListeners, caVars, appVars>>

\* the canvas mouseleave listener
IMMouseLeave ==
    /\ Listens("canvas.mouseleave")
    /\ SetIMState(ClearHover(IMState))
    /\ UNCHANGED <<pointer, firstMaterial, imListeners, caVars, appVars>>

\* the close button's listener
IMCloseInfo ==
    /\ Listens("close.click")
    /\ SetIMState(HidePartInfo(IMState))
    /\ UNCHANGED <<pointer, firstMaterial, imListeners, caVars, appVars>>

\* one call of update(deltaTime) from the frame loop
IMUpdate(deltaTime) ==
    /\ ~HoverTimeCapped(deltaTime)
    /\ SetIMState(UpdatePulseAnimations(IMState, deltaTime))
    /\ UNCHANGED <<pointer, firstMaterial, imListeners, caVars, appVars>>

\* The same three pointer handlers, the page also recording which pointer
\* event it delivered last and what its ray hit
PointerMove(hit) ==
    /\ Listens("canvas.mousemove")
    /\ SetIMState(HandleHover(IMState, hit))
    /\ pointer' = [event |-> "move", hit |-> hit]
    /\ UNCHANGED <<firstMaterial, imListeners, caVars, appVars>>

PointerClick(hit) ==
    /\ Listens("canvas.click")
    /\ SetIMState(HandleClick(IMState, hit))
    /\ pointer' = [event |-> "click", hit |-> hit]
    /\ UNCHANGED <<firstMaterial, imListeners, caVars, appVars>>

PointerLeave ==
    /\ Listens("canvas.mouseleave")
    /\ SetIMState(ClearHover(IMState))
    /\ pointer' = [event |-> "leave", hit |-> 0]
    /\ UNCHANGED <<firstMaterial, imListeners, caVars, appVars>>

\* onMouseMove(event) again, the page also recording the material object
\* the first part carries when it becomes hoveredObject for the first time
FirstHoverMove(hit) ==
    /\ Listens("canvas.mousemove")
    /\ SetIMState(HandleHover(IMState, hit))
    /\ firstMaterial' =
           IF hit = 1 /\ firstMaterial = "none"
           THEN material[hit].ref
           ELSE firstMaterial
    /\ UNCHANGED <<pointer, imListeners, caVars, appVars>>

\* destroy(): what it does to the manager's listeners
IMDestroy == imListeners' = imListeners \ RemovedIMListeners

\* the manager's fields and the meshes
imState == <<hoveredObject, selectedObject, material, scale, userData,
             panelHidden, partName>>

----------------------------------------------------------------------------
\* App and the page

AllModules == {"scene", "lighting", "product", "interaction", "camera"}

\* App.animate() rendering before it updates the modules
FrameSteps_RenderFirst(mods) ==
    (IF "scene" \in mods THEN <<"render">> ELSE <<>>)
    \o <<"controls">>
    \o (IF "camera" \in mods THEN <<"camera">> ELSE <<>>)
    \o (IF "product" \in mods THEN <<"float">> ELSE <<>>)
    \o (IF "interaction" \in mods THEN <<"interaction">> ELSE <<>>)
    \o (IF "lighting" \in mods THEN <<"lighting">> ELSE <<>>)

\* App.update(): the modules it advances, in order, then render()
FrameSteps(mods) ==
    <<"controls">>
    \o (IF "camera" \in mods THEN <<"camera">> ELSE <<>>)
    \o (IF "product" \in mods THEN <<"float">> ELSE <<>>)
    \o (IF "interaction" \in mods THEN <<"interaction">> ELSE <<>>)
    \o (IF "lighting" \in mods THEN <<"lighting">> ELSE <<>>)
    \o (IF "scene" \in mods THEN <<"render">> ELSE <<>>)

\* animate() past its isRunning test, queue being the requests still
\* pending and mods the modules that exist: request the next frame, update
\* every module, render
AnimateBody(queue, mods, deltaTime) ==
    /\ animationId' = FreshFrameId
    /\ rafQueue' = queue \cup {[id |-> FreshFrameId, cb |-> "animate"]}
    /\ IF "camera" \in mods
       THEN CameraUpdate(deltaTime)
       ELSE UNCHANGED <<controlsEnabled, currentAngle, camera>>
    /\ IF "interaction" \in mods
       THEN SetIMState(UpdatePulseAnimations(IMState, deltaTime))
       ELSE UNCHANGED imState
    /\ frameLog' = FrameSteps(mods)

\* start() without its test of isRunning
StartBody_NoGuard(mods) ==
    /\ isRunning' = TRUE
    /\ AnimateBody(rafQueue, mods, 0)

\* start(); clock.start() makes the first frame's deltaTime 0
StartBody(mods) ==
    IF isRunning
    THEN UNCHANGED <<isRunning, animationId, rafQueue, controlsEnabled,
                     currentAngle, camera, imState, frameLog>>
    ELSE /\ isRunning' = TRUE
         /\ AnimateBody(rafQueue, mods, 0)

\* stop() without cancelAnimationFrame
StopBody_NoCancel ==
    IF ~isRunning
    THEN UNCHANGED <<isRunning, animationId, rafQueue>>
    ELSE /\ isRunning' = FALSE
         /\ animationId' = 0
         /\ UNCHANGED rafQueue

\* stop()
StopBody ==
    IF ~isRunning
    THEN UNCHANGED <<isRunning, animationId, rafQueue>>
    ELSE /\ isRunning' = FALSE
         /\ rafQueue' = IF animationId # 0
                        THEN {f \in rafQueue : f.id # animationId}
                        ELSE rafQueue
         /\ animationId' = 0

\* init() whose catch block does not call showError() when the Scene Manager
\* cannot be built
AppInitBegin_NoOverlay(fail) ==
    /\ pc = "new"
    /\ loadingHidden' = FALSE
    /\ IF fail
       THEN /\ pc' = "failed"
            /\ UNCHANGED <<modules, resizeListener, errorShown, aspect,
                           rendererSize>>
       ELSE /\ pc' = "delay"
            /\ modules' = {"scene"}
            /\ aspect' = Aspect(viewport)
            /\ rendererSize' = viewport
            /\ resizeListener' = TRUE
            /\ UNCHANGED errorShown
    /\ UNCHANGED <<isRunning, animationId, rafQueue, destroyed, frameLog,
                   viewport>>
    /\ UNCHANGED <<caVars, imVars>>

\* init() up to the await in initializeModules(): showLoading(), then
\* new SceneManager(), which attaches the resize listener; fail says the
\* constructor throws, and init() catches it and calls showError()
AppInitBegin(fail) ==
    /\ pc = "new"
    /\ loadingHidden' = FALSE
    /\ IF fail
       THEN /\ pc' = "failed"
            /\ errorShown' = errorShown + 1
            /\ UNCHANGED <<modules, resizeListener, aspect, rendererSize>>
       ELSE /\ pc' = "delay"
            /\ modules' = {"scene"}
            /\ aspect' = Aspect(viewport)
            /\ rendererSize' = viewport
            /\ resizeListener' = TRUE
            /\ UNCHANGED errorShown
    /\ UNCHANGED <<isRunning, animationId, rafQueue, destroyed, frameLog,
                   viewport>>
    /\ UNCHANGED <<caVars, imVars>>

\* init() after the delay.  failAt names the constructor that throws for a
\* missing DOM element: the manager's at closeInfoButton.addEventListener,
\* after its two canvas listeners are attached; the animator's at
\* toggleButton.addEventListener, before any of its listeners is attached
AppInitResume(failAt) ==
    /\ pc = "delay"
    /\ IF failAt = "interaction"
       THEN /\ modules' = modules \cup {"lighting", "product"}
            /\ imListeners' = { <<"canvas.mousemove", "arrow">>,
                                <<"canvas.click", "arrow">> }
            /\ UNCHANGED caListeners
       ELSE IF failAt = "camera"
       THEN /\ modules' = modules \cup {"lighting", "product", "interaction"}
            /\ imListeners' = AttachedIMListeners
            /\ UNCHANGED caListeners
       ELSE /\ modules' = AllModules
            /\ imListeners' = AttachedIMListeners
            /\ caListeners' = AllCaListeners
    /\ IF failAt = "none"
       THEN /\ StartBody(modules')
            /\ loadingHidden' = TRUE
            /\ pc' = "ready"
            /\ UNCHANGED errorShown
       ELSE /\ pc' = "failed"
            /\ errorShown' = errorShown + 1
            /\ UNCHANGED <<isRunning, animationId, rafQueue, controlsEnabled,
                           currentAngle, camera, imState, frameLog,
                           loadingHidden>>
    /\ UNCHANGED <<isAutoRotating, userInteracting, interactionTimeout,
                   wasAutoRotatingBeforeInteraction, isMouseDown, isDragging,
                   radius, height, timers, toggleText, toggleClass,
                   sinceRelease, controlsTarget, sinceReset>>
    /\ UNCHANGED <<resizeListener, destroyed, pointer, firstMaterial, smVars>>

\* the browser runs a pending frame request: animate()
FrameCallback(deltaTime) ==
    /\ \E f \in rafQueue :
        /\ f.cb = "animate"
        /\ IF ~isRunning
           THEN /\ rafQueue' = rafQueue \ {f}
                /\ UNCHANGED <<animationId, controlsEnabled, currentAngle,
                               camera, imState, frameLog>>
           ELSE /\ ~AngleCapped(deltaTime)
                /\ ~HoverTimeCapped(deltaTime)
                /\ AnimateBody(rafQueue \ {f}, modules, deltaTime)
    /\ UNCHANGED <<caUpdateRest, imListeners, pointer, firstMaterial>>
    /\ UNCHANGED <<pc, modules, isRunning, resizeListener, destroyed,
                   loadingHidden, errorShown, smVars>>

\* resize()'s handler setting the renderer size only
Resize_KeepsAspect(size) ==
    /\ viewport' = size
    /\ IF resizeListener
       THEN /\ rendererSize' = size
            /\ UNCHANGED aspect
       ELSE UNCHANGED <<aspect, rendererSize>>
    /\ UNCHANGED <<pc, modules, isRunning, animationId, rafQueue,
                   resizeListener, destroyed, loadingHidden, errorShown,
                   frameLog>>
    /\ UNCHANGED <<caVars, imVars>>

\* the user gives the window the inner size `size'; the browser dispatches
\* 'resize', and the listener setupResizeHandler() attached, if any, runs
Resize(size) ==
    /\ viewport' = size
    /\ IF resizeListener
       THEN /\ aspect' = Aspect(viewport')
            /\ rendererSize' = viewport'
       ELSE UNCHANGED <<aspect, rendererSize>>
    /\ UNCHANGED <<pc, modules, isRunning, animationId, rafQueue,
                   resizeListener, destroyed, loadingHidden, errorShown,
                   frameLog>>
    /\ UNCHANGED <<caVars, imVars>>

\* pauseAnimation()
PauseAnimation ==
    /\ "scene" \in modules
    /\ StopBody
    /\ UNCHANGED <<pc, modules, resizeListener, destroyed, loadingHidden,
                   errorShown, frameLog, smVars>>
    /\ UNCHANGED <<caVars, imVars>>

\* resumeAnimation()
ResumeAnimation ==
    /\ "scene" \in modules
    /\ StartBody(modules)
    /\ UNCHANGED <<caUpdateRest, imListeners, pointer, firstMaterial>>
    /\ UNCHANGED <<pc, modules, resizeListener, destroyed, loadingHidden,
                   errorShown, smVars>>

\* destroy(), as the beforeunload handler calls it
AppDestroy ==
    /\ pc # "new"
    /\ ~destroyed
    /\ destroyed' = TRUE
    /\ StopBody
    /\ IF "interaction" \in modules THEN IMDestroy ELSE UNCHANGED imListeners
    /\ IF "camera" \in modules
       THEN CameraDestroy
       ELSE UNCHANGED <<timers, caListeners>>
    /\ UNCHANGED <<caDestroyRest, imState, pointer, firstMaterial>>
    /\ UNCHANGED <<pc, modules, resizeListener, loadingHidden, errorShown,
                   frameLog, smVars>>

----------------------------------------------------------------------------
\* Initial states

\* the animator's fields as its constructor leaves them
CameraConstructed ==
    /\ isAutoRotating = TRUE
    /\ userInteracting = FALSE
    /\ interactionTimeout = 0
    /\ wasAutoRotatingBeforeInteraction = FALSE
    /\ isMouseDown = FALSE
    /\ isDragging = FALSE
    /\ currentAngle = initialAngle
    /\ radius = initialRadius
    /\ height = initialHeight
    /\ camera = InitialCamera
    /\ controlsEnabled = TRUE
    /\ timers = <<>>
    /\ toggleText = "html"
    /\ toggleClass = FALSE
    /\ sinceRelease = FALSE
    /\ controlsTarget = TargetY
    /\ sinceReset = FALSE

\* the manager's fields and the meshes as the constructors leave them
InteractionConstructed ==
    /\ hoveredObject = 0
    /\ selectedObject = 0
    /\ material = [p \in Parts |-> BaseMaterial]
    /\ scale = [p \in Parts |-> UnitScale]
    /\ userData = [p \in Parts |->
                      [originalScale |-> 0, hovering |-> FALSE,
                       hoverTime |-> 0, pulsing |-> FALSE, pulseTime |-> 0]]
    /\ panelHidden = TRUE
    /\ partName = ""
    /\ pointer = [event |-> "none", hit |-> 0]
    /\ firstMaterial = "none"

\* the page before new App()
Init ==
    /\ CameraConstructed
    /\ InteractionConstructed
    /\ caListeners = {}
    /\ imListeners = {}
    /\ pc = "new"
    /\ modules = {}
    /\ isRunning = FALSE
    /\ animationId = 0
    /\ rafQueue = {}
    /\ resizeListener = FALSE
    /\ destroyed = FALSE
    /\ loadingHidden = TRUE
    /\ errorShown = 0
    /\ frameLog = <<>>
    /\ viewport = InitialViewport
    /\ aspect = 0
    /\ rendererSize = <<0, 0>>

\* every module constructed, the frame loop not started: the components
\* are driven by their own update(deltaTime)
InitComponents ==
    /\ CameraConstructed
    /\ InteractionConstructed
    /\ caListeners = AllCaListeners
    /\ imListeners = AttachedIMListeners
    /\ pc = "ready"
    /\ modules = AllModules
    /\ isRunning = FALSE
    /\ animationId = 0
    /\ rafQueue = {}
    /\ resizeListener = TRUE
    /\ destroyed = FALSE
    /\ loadingHidden = TRUE
    /\ errorShown = 0
    /\ frameLog = <<>>
    /\ viewport = InitialViewport
    /\ aspect = Aspect(InitialViewport)
    /\ rendererSize = InitialViewport

----------------------------------------------------------------------------
\* Specifications

\* the application driver: init, the frame loop, pause/resume, teardown
Next ==
    \/ \E fail \in BOOLEAN : AppInitBegin(fail)
    \/ \E failAt \in {"none", "interaction", "camera"} : AppInitResume(failAt)
    \/ \E deltaTime \in DeltaTimes : FrameCallback(deltaTime)
    \/ PauseAnimation
    \/ ResumeAnimation
    \/ AppDestroy
    \/ \E size \in Viewports : Resize(size)

Spec == Init /\ [][Next]_vars

\* the Camera Animator under every interleaving of its callbacks
NextCamera ==
    \/ \E button \in Buttons : OnMouseDown(button)
    \/ OnMouseMove
    \/ \E button \in Buttons : OnMouseUp(button)
    \/ OnMouseLeave
    \/ OnUserInteractionStart
    \/ OnUserInteractionEnd
    \/ \E newCamera \in ControlPositions : OnUserInteractionChange(newCamera)
    \/ TimerFire
    \/ ToggleAutoRotation
    \/ \E deltaTime \in CamDeltaTimes : Update(deltaTime)
    \/ Destroy

SpecCamera == InitComponents /\ [][NextCamera]_vars

\* the Camera Animator with its reset button and the frames of the reset
\* animation, under the callbacks that take it through its four states
\* (auto-rotating, user-interacting, waiting to resume, manually paused);
\* the orbit controls leave the camera away from its initial position
NextReset ==
    \/ ResetCamera
    \/ \E elapsed \in ResetElapsed : ResetFrame(elapsed)
    \/ OnMouseDown(0)
    \/ OnMouseUp(0)
    \/ \E newCamera \in ControlPositions \ {InitialCamera} :
          OnUserInteractionChange(newCamera)
    \/ TimerFire
    \/ ToggleAutoRotation
    \/ \E deltaTime \in CamDeltaTimes : Update(deltaTime)

SpecReset == InitComponents /\ [][NextReset]_vars

\* the Interaction Manager under every sequence of pointer events and frames
NextInteraction ==
    \/ \E hit \in Parts \cup {0} : IMMouseMove(hit)
    \/ \E hit \in Parts \cup {0} : IMMouseClick(hit)
    \/ IMMouseLeave
    \/ IMCloseInfo
    \/ \E deltaTime \in DeltaTimes : IMUpdate(deltaTime)

SpecInteraction == InitComponents /\ [][NextInteraction]_vars

\* the same, with the latest pointer event on record
NextPointer ==
    \/ \E hit \in Parts \cup {0} : PointerMove(hit)
    \/ \E hit \in Parts \cup {0} : PointerClick(hit)
    \/ PointerLeave
    \/ IMCloseInfo
    \/ \E deltaTime \in DeltaTimes : IMUpdate(deltaTime)

SpecPointer == InitComponents /\ [][NextPointer]_vars

\* the same, with the first part's material before its first hover on record
NextFirstHover ==
    \/ \E hit \in Parts \cup {0} : FirstHoverMove(hit)
    \/ \E hit \in Parts \cup {0} : IMMouseClick(hit)
    \/ IMMouseLeave
    \/ IMCloseInfo
    \/ \E deltaTime \in DeltaTimes : IMUpdate(deltaTime)

SpecFirstHover == InitComponents /\ [][NextFirstHover]_vars

----------------------------------------------------------------------------
\* Properties of the Camera Animator (SpecCamera)

C2_ResumesAfterRelease ==
    (sinceRelease /\ timers = <<>> /\ caListeners # {})
        => (isAutoRotating /\ ~userInteracting)

\* C3: every further interaction (left mouse-down, mouse-move with the
\* button held, controls 'start', controls 'change') leaves no resume timer
\* pending.
C3_InteractionCancelsTimer ==
    [][ ( /\ timers # <<>>
          /\ \/ OnMouseDown(0)
             \/ (isMouseDown /\ OnMouseMove)
             \/ OnUserInteractionStart
             \/ \E newCamera \in ControlPositions :
                    OnUserInteractionChange(newCamera) )
        => timers' = <<>> ]_vars

\* C4: once the toggle has switched auto-rotation off (isAutoRotating and
\* wasAutoRotatingBeforeInteraction both false, which only the toggle
\* produces), only the toggle switches it on again.
C4_ManualOffStaysOff ==
    [][ (~isAutoRotating /\ ~wasAutoRotatingBeforeInteraction
            /\ isAutoRotating')
        => ToggleAutoRotation ]_vars

\* C5: at most one resume timer is pending, and it is the one
\* interactionTimeout references.
C5_SingleTimer ==
    /\ Len(timers) <= 1
    /\ timers # <<>> => timers[1].id = interactionTimeout

\* C7: after the animator's destroy() no resume timer is pending.
C7_NoTimerAfterDestroy == caListeners = {} => timers = <<>>

----------------------------------------------------------------------------
\* Properties of the application driver (Spec)

\* C6: after App.destroy() no listener of any component is attached.
C6_NoListenerAfterDestroy ==
    destroyed => (imListeners = {} /\ caListeners = {} /\ ~resizeListener)

\* C8: while the loop is stopped no frame request of the loop is pending,
\* and no step between two stopped states runs an update or a render.
C8_StopCancelsFrames ==
    /\ [](~isRunning => \A f \in rafQueue : f.cb # "animate")
    /\ [][ (~isRunning /\ ~isRunning')
           => UNCHANGED <<currentAngle, camera, controlsEnabled, imState,
                          frameLog>> ]_vars

\* C8 witness: the loop has run frames and is stopped by pauseAnimation()
C8_Witness ==
    /\ pc = "ready" /\ ~destroyed /\ ~isRunning
    /\ frameLog # <<>> /\ animationId = 0 /\ rafQueue = {}

----------------------------------------------------------------------------
\* Properties of the Interaction Manager

\* material or scale differs visibly from the stored original
Highlighted(p) ==
    \/ material[p].emissive # OriginalMaterial(p).emissive
    \/ material[p].intensity # OriginalMaterial(p).intensity
    \/ scale[p] # UnitScale

\* C9 (SpecPointer): after a pointer move whose ray hits mesh M,
\* hoveredObject is M and M is visibly highlighted.
C9_HoverHighlights ==
    (pointer.event = "move" /\ pointer.hit # 0)
        => (hoveredObject = pointer.hit /\ Highlighted(pointer.hit))

\* C10 as stated (SpecFirstHover): moving off all meshes gives the hovered,
\* unselected mesh back the material object it carried before it was first
\* hovered.
C10_RestoresFirstReference ==
    [][ ( /\ \/ FirstHoverMove(0)
             \/ IMMouseLeave
          /\ hoveredObject = 1
          /\ selectedObject # 1 )
        => material'[1].ref = firstMaterial ]_vars

\* C10 as amended (SpecFirstHover): moving off all meshes gives the hovered,
\* unselected mesh the stored original material (the clone taken at
\* startup) and its original scale, clears its hovering flag and sets
\* hoveredObject to null.
C10_RestoresStoredOriginal ==
    [][ \A p \in Parts :
          ( /\ hoveredObject = p
            /\ selectedObject # p
            /\ \/ FirstHoverMove(0)
               \/ IMMouseLeave )
          => /\ material'[p] = OriginalMaterial(p)
             /\ scale'[p] = UnitScale
             /\ ~userData'[p].hovering
             /\ hoveredObject' = 0 ]_vars

\* C10 witness: the pointer has left a mesh that was hovered, and the mesh
\* carries the stored original at its original scale
C10_Witness ==
    /\ hoveredObject = 0
    /\ \E p \in Parts :
          /\ p # selectedObject
          /\ material[p] = OriginalMaterial(p)
          /\ userData[p].originalScale = UnitScale
          /\ userData[p].hoverTime > 0
          /\ ~userData[p].hovering
          /\ scale[p] = UnitScale

----------------------------------------------------------------------------
\* Selection

\* a mesh shows selection feedback: the selection material or a pulse
SelectionVisuals(p) ==
    material[p] = SelectionMaterial(p) \/ userData[p].pulsing

\* C11: after a click that hits mesh M, selectedObject is M, M carries the
\* selection material and pulses and its panel is shown; after a click that
\* hits nothing selectedObject is null; and in every state the selected mesh
\* carries the selection material and no other mesh carries the selection
\* material or a pulse.
C11_ClickSelectsOnlyOne ==
    /\ [](selectedObject # 0 =>
             material[selectedObject] = SelectionMaterial(selectedObject))
    /\ [](\A p \in Parts : p # selectedObject => ~SelectionVisuals(p))
    /\ [][\A hit \in 0..NumParts :
             IMMouseClick(hit) =>
                 /\ selectedObject' = hit
                 /\ hit # 0 => /\ material'[hit] = SelectionMaterial(hit)
                               /\ userData'[hit].pulsing
                               /\ userData'[hit].pulseTime = 0
                               /\ ~panelHidden']_vars

\* C11 witness: part 2 is selected after part 1 had been selected and had
\* pulsed; part 1 is back to its stored original
C11_Witness ==
    /\ NumParts >= 2
    /\ selectedObject = 2
    /\ material[2] = SelectionMaterial(2)
    /\ userData[2].pulsing
    /\ userData[1].pulseTime > 0
    /\ ~userData[1].pulsing
    /\ material[1] = OriginalMaterial(1)
    /\ scale[1] = UnitScale
    /\ ~panelHidden

\* C12: the selected mesh never has its hovering flag set and never carries
\* the hover material, and no update applies the hover breathing animation
\* to it (its hoverTime does not advance, and its scale changes only by the
\* pulse).
C12_HoverSelectionExclusive ==
    /\ [](selectedObject # 0 =>
             /\ ~userData[selectedObject].hovering
             /\ material[selectedObject] # HoverMaterial(selectedObject))
    /\ [][\A deltaTime \in DeltaTimes :
             (IMUpdate(deltaTime) /\ selectedObject # 0) =>
                 LET o == selectedObject
                 IN  /\ userData'[o].hoverTime = userData[o].hoverTime
                     /\ ~userData[o].pulsing => scale'[o] = scale[o]]_vars

\* C12 witness: a mesh that was hovered and had breathed is now the
\* selected mesh, still under the pointer, its pulse over
C12_Witness ==
    /\ selectedObject # 0
    /\ hoveredObject = selectedObject
    /\ userData[selectedObject].hoverTime > 0
    /\ userData[selectedObject].pulseTime > PulseLimit
    /\ ~userData[selectedObject].pulsing
    /\ scale[selectedObject] = UnitScale

\* C13: a click that deselects mesh o (it hits nothing, or another mesh)
\* leaves o with its stored original material and original scale and without
\* a pulse; the info panel is hidden unless the click selected another mesh,
\* whose name it then shows.
C13_DeselectRestores ==
    [][\A hit \in 0..NumParts :
          (IMMouseClick(hit) /\ selectedObject # 0 /\ hit # selectedObject) =>
              LET o == selectedObject
              IN  /\ material'[o] = OriginalMaterial(o)
                  /\ scale'[o] = UnitScale
                  /\ ~userData'[o].pulsing
                  /\ hit = 0 => panelHidden'
                  /\ hit # 0 => (~panelHidden' /\ partName' = DisplayName(hit))
      ]_vars

\* C13 witness: a mesh was deselected in the middle of its pulse by a click
\* on empty space
C13_Witness ==
    /\ selectedObject = 0
    /\ panelHidden
    /\ \E p \in Parts :
          /\ partName = DisplayName(p)
          /\ userData[p].pulseTime > 0
          /\ userData[p].pulseTime <= PulseLimit
          /\ ~userData[p].pulsing
          /\ material[p] = OriginalMaterial(p)
          /\ scale[p] = UnitScale

\* C14: only the selected mesh pulses and a pulsing mesh has not passed the
\* threshold; every update adds its (positive) deltaTime to the pulse time
\* of a pulsing mesh, and the update that carries it beyond the threshold
\* clears the pulsing flag, leaves the scale at the original scale and
\* leaves the mesh selected with the selection material.
C14_PulseBounded ==
    /\ [](\A p \in Parts :
             userData[p].pulsing =>
                 (p = selectedObject /\ userData[p].pulseTime <= PulseLimit))
    /\ [][\A deltaTime \in DeltaTimes : \A p \in Parts :
             (IMUpdate(deltaTime) /\ userData[p].pulsing) =>
                 LET t == userData[p].pulseTime + deltaTime
                 IN  /\ deltaTime > 0
                     /\ userData'[p].pulseTime = t
                     /\ IF t > PulseLimit
                        THEN /\ ~userData'[p].pulsing
                             /\ scale'[p] = UnitScale
                             /\ selectedObject' = p
                             /\ material'[p] = SelectionMaterial(p)
                        ELSE userData'[p].pulsing]_vars

\* C14 witness: the pulse of the selected mesh has ended by itself
C14_Witness ==
    \E p \in Parts :
        /\ selectedObject = p
        /\ userData[p].pulseTime > PulseLimit
        /\ ~userData[p].pulsing
        /\ scale[p] = UnitScale
        /\ material[p] = SelectionMaterial(p)
        /\ hoveredObject = 0

----------------------------------------------------------------------------
\* Reset (SpecReset)

\* C15: once a reset animation has completed, and until the user produces
\* new input, the camera stays at the stored initial position whatever
\* frames and timers run.
C15_ResetReachesInitial == sinceReset => camera = InitialCamera

\* C16: the frame that completes a reset animation leaves currentAngle,
\* radius and height at the values stored at construction and the controls'
\* target at the animator's target, and neither it nor resetCamera() changes
\* isAutoRotating, userInteracting or the pending resume timer.
C16_ResetRealignsBookkeeping ==
    [][/\ \A elapsed \in ResetElapsed :
             (ResetFrame(elapsed) /\ Progress(elapsed) = 1000) =>
                 /\ currentAngle' = initialAngle
                 /\ radius' = initialRadius
                 /\ height' = initialHeight
                 /\ controlsTarget' = TargetY
       /\ (ResetCamera \/ \E elapsed \in ResetElapsed : ResetFrame(elapsed))
             => UNCHANGED <<isAutoRotating, userInteracting, timers,
                            interactionTimeout>>]_vars

----------------------------------------------------------------------------
\* Controls and rotation (SpecCamera)

\* C17: whenever the animator is auto-rotating (isAutoRotating, not
\* userInteracting, button up) the orbit controls are disabled, and whenever
\* isAutoRotating is false they are enabled.
C17_ControlsDisabledWhileRotating ==
    /\ AutoRotationActive => ~controlsEnabled
    /\ ~isAutoRotating => controlsEnabled

\* C18: a controls 'change' event delivered while auto-rotation is active
\* leaves the animator user-interacting: isAutoRotating false,
\* userInteracting true, controls enabled.
C18_ChangeEntersInteraction ==
    [][\A newCamera \in ControlPositions :
          (OnUserInteractionChange(newCamera) /\ AutoRotationActive) =>
              (~isAutoRotating' /\ userInteracting' /\ controlsEnabled')
      ]_vars

\* C19: the toggle button still shows the page's own text exactly as long
\* as rotation has never been paused or resumed, so currentAngle is then the
\* initial angle plus what update() has turned; when update() has turned one
\* full period since construction the camera is back at the position it
\* started from.
C19_FullPeriodReturns ==
    (toggleText = "html" /\ AutoRotationActive
        /\ currentAngle = initialAngle + RotationOf(FullPeriod))
      => camera = InitialCamera

----------------------------------------------------------------------------
\* Frame loop (Spec)

\* the number of times a step ran in the latest frame
StepCount(step) ==
    Cardinality({i \in DOMAIN frameLog : frameLog[i] = step})

\* the place of a step in the latest frame
StepIndex(step) == CHOOSE i \in DOMAIN frameLog : frameLog[i] = step

\* C20 as stated: every frame the loop has run executed each of its steps
\* exactly once, in the order controls, camera animation, product float,
\* interaction animations, render, and render came last.
C20_FrameStepOrder ==
    frameLog # <<>> =>
        /\ \A step \in {"controls", "camera", "float", "interaction", "render"} :
              StepCount(step) = 1
        /\ StepIndex("controls") < StepIndex("camera")
        /\ StepIndex("camera") < StepIndex("float")
        /\ StepIndex("float") < StepIndex("interaction")
        /\ StepIndex("interaction") < StepIndex("render")
        /\ StepIndex("render") = Len(frameLog)

\* the place of a step in the order the frame loop is to follow
StepRank(step) ==
    CASE step = "controls" -> 1
      [] step = "camera" -> 2
      [] step = "float" -> 3
      [] step = "interaction" -> 4
      [] step = "lighting" -> 5
      [] step = "render" -> 6

\* C20: every frame the loop has run advanced the controls first, rendered
\* last, and in between ran the step of each module that existed at most
\* once and in the order camera animation, product float, interaction
\* animations; a frame run once every module is constructed ran all of
\* these steps.
C20_FrameStepOrderOfModules ==
    /\ [](frameLog # <<>> =>
            /\ \A i, j \in DOMAIN frameLog :
                  i < j => StepRank(frameLog[i]) < StepRank(frameLog[j])
            /\ frameLog[1] = "controls"
            /\ frameLog[Len(frameLog)] = "render")
    /\ [][((\E deltaTime \in DeltaTimes : FrameCallback(deltaTime))
              /\ isRunning /\ modules = AllModules) =>
             \A step \in {"controls", "camera", "float", "interaction",
                           "render"} :
                 \E i \in DOMAIN frameLog' : frameLog'[i] = step]_vars

\* C20 witness: initialisation is complete and the running loop has run a
\* frame with every module, which turned the camera
C20_Witness ==
    /\ isRunning
    /\ pc = "ready"
    /\ Len(frameLog) >= 5
    /\ currentAngle > initialAngle
    /\ ~controlsEnabled

----------------------------------------------------------------------------
\* Initialisation and teardown (Spec)

\* C21: a constructor that throws during init() takes init() to its catch
\* block: the error overlay is added once, the step neither starts the loop
\* nor requests a frame, and init() never runs again; the overlay is on the
\* page exactly once when init() has failed and not at all otherwise.
C21_InitFailureShowsError ==
    /\ [](errorShown = IF pc = "failed" THEN 1 ELSE 0)
    /\ [][ /\ ( \/ AppInitBegin(TRUE)
                \/ \E failAt \in {"interaction", "camera"} :
                       AppInitResume(failAt) )
              => /\ pc' = "failed"
                 /\ errorShown' = errorShown + 1
                 /\ UNCHANGED <<isRunning, animationId, rafQueue, frameLog>>
           /\ pc = "failed" => pc' = "failed" ]_vars

\* C21 witness: the animator's constructor threw after the delay, with the
\* other modules built and the loop never started
C21_Witness ==
    /\ pc = "failed"
    /\ errorShown = 1
    /\ modules = AllModules \ {"camera"}
    /\ imListeners = AttachedIMListeners
    /\ ~isRunning
    /\ rafQueue = {}
    /\ ~loadingHidden

----------------------------------------------------------------------------
\* Materials (SpecInteraction)

\* C22: a mesh that references a shared base material or its stored original
\* shows that material untinted, so a tint is only ever found on a clone;
\* and a step changes the material of no mesh other than the hovered or
\* selected mesh before the step and the hovered or selected mesh after it.
C22_TintsOnlyClones ==
    /\ [](\A p \in Parts :
            /\ material[p].ref \in {"base", "original", "clone"}
            /\ material[p].ref = "base" => material[p] = BaseMaterial
            /\ material[p].ref = "original" =>
                  material[p] = OriginalMaterial(p)
            /\ material[p].ref = "clone" =>
                  material[p] \in {HoverMaterial(p), SelectionMaterial(p)})
    /\ [][\A q \in Parts :
             material'[q] # material[q] =>
                 q \in {hoveredObject, hoveredObject', selectedObject,
                        selectedObject'}]_vars

\* C22 witness: one mesh carries a hover clone while another, selected and
\* deselected before, references its untinted stored original
C22_Witness ==
    /\ NumParts >= 2
    /\ hoveredObject = 2
    /\ material[2] = HoverMaterial(2)
    /\ material[1] = OriginalMaterial(1)
    /\ userData[1].pulseTime > 0
    /\ selectedObject = 0

----------------------------------------------------------------------------
\* Resize (Spec)

\* C23: once the Scene Manager exists the camera's aspect ratio is the
\* viewport's width over its height and the renderer has the viewport's
\* size; a resize makes them so for the new viewport and changes nothing
\* else: not the modules or the loop, not the camera position or the
\* animator, not the hover and selection state.
C23_ResizeFitsViewport ==
    /\ [](resizeListener =>
             /\ aspect * viewport[2] <= viewport[1] * 1000
             /\ viewport[1] * 1000 < (aspect + 1) * viewport[2]
             /\ rendererSize = viewport)
    /\ [][\A size \in Viewports :
             Resize(size) =>
                 /\ viewport' = size
                 /\ resizeListener =>
                       /\ aspect' * size[2] <= size[1] * 1000
                       /\ size[1] * 1000 < (aspect' + 1) * size[2]
                       /\ rendererSize' = size
                 /\ UNCHANGED <<caVars, imVars, pc, modules, isRunning,
                                animationId, rafQueue, resizeListener,
                                destroyed, loadingHidden, errorShown,
                                frameLog>>]_vars

\* C23 witness: the window has been made portrait while the loop was
\* running and the camera had turned
C23_Witness ==
    /\ pc = "ready"
    /\ isRunning
    /\ currentAngle > initialAngle
    /\ viewport = <<600, 800>>
    /\ aspect = 750
    /\ rendererSize = <<600, 800>>

----------------------------------------------------------------------------
\* Auto-rotation steps (SpecCamera)

\* C24: an update(deltaTime) in the auto-rotation branch advances
\* currentAngle by exactly rotationSpeed * deltaTime and leaves radius and
\* height unchanged, the camera keeps its distance from the axis through
\* the target and its height (it stays on one circle), and the angle turned
\* in two updates is the angle turned in one update of their total length.
C24_UpdateTurnsOnOneCircle ==
    [][\A deltaTime \in CamDeltaTimes :
          (Update(deltaTime) /\ AutoRotationActive) =>
              /\ currentAngle' = currentAngle + RotationOf(deltaTime)
              /\ UNCHANGED <<radius, height>>
              /\ camera'.angle = Atan2Deg(currentAngle')
              /\ camera'.r = camera.r
              /\ camera'.y = camera.y
              /\ \A other \in CamDeltaTimes :
                    RotationOf(deltaTime) + RotationOf(other)
                        = RotationOf(deltaTime + other)]_vars

----------------------------------------------------------------------------
\* Hover (SpecInteraction)

\* a mesh shows hover feedback: the hover material or the hovering flag
HoverVisuals(p) ==
    material[p] = HoverMaterial(p) \/ userData[p].hovering

----------------------------------------------------------------------------
\* One frame request (Spec)

\* the pending frame requests of the main loop
LoopRequests == {f \in rafQueue : f.cb = "animate"}

\* C26: at most one frame request of the main loop is pending, and it is
\* the one animationId names; no step ran twice in the latest frame; and
\* resumeAnimation(), that is start(), called while the loop is running
\* changes nothing.
C26_OneFrameRequest ==
    /\ [](Cardinality(LoopRequests) <= 1)
    /\ [](\A f \in LoopRequests : f.id = animationId)
    /\ [](\A i, j \in DOMAIN frameLog :
             frameLog[i] = frameLog[j] => i = j)
    /\ [][(isRunning /\ ResumeAnimation) => UNCHANGED vars]_vars

\* C26 witness: the loop is running with its second frame request pending,
\* every module built and the camera turned
C26_Witness ==
    /\ isRunning
    /\ pc = "ready"
    /\ animationId = 2
    /\ rafQueue = {[id |-> 2, cb |-> "animate"]}
    /\ currentAngle > initialAngle

----------------------------------------------------------------------------
\* Teardown (Spec)

\* C27: once destroy() has run the loop is stopped with no frame request
\* pending and stays so, no frame runs, and init() resuming from its delay
\* builds no module and attaches no listener.
C27_NothingAfterDestroy ==
    /\ [](destroyed => (~isRunning /\ LoopRequests = {}))
    /\ [][destroyed =>
             /\ modules' = modules
             /\ imListeners' \subseteq imListeners
             /\ caListeners' \subseteq caListeners
             /\ frameLog' = frameLog]_vars

----------------------------------------------------------------------------
\* Writers of the camera position (Spec)

\* C28: a frame in which the animator writes the camera along the
\* auto-rotation circle does not run the orbit controls' update, and a
\* frame in which the controls drive the camera leaves the animator's angle
\* and the camera as the controls put them.
C28_OneCameraWriter ==
    [][\A deltaTime \in DeltaTimes :
          (FrameCallback(deltaTime) /\ isRunning /\ "camera" \in modules) =>
              IF AutoRotationActive
              THEN \A i \in DOMAIN frameLog' : frameLog'[i] # "controls"
              ELSE UNCHANGED <<currentAngle, camera>>]_vars

----------------------------------------------------------------------------
\* The animator's states (SpecCamera)

\* C29: isAutoRotating and userInteracting are never both true, so the
\* animator is in exactly one of the states auto-rotating, user-interacting
\* (or waiting to resume) and manually paused.
C29_FlagsExclusive ==
    /\ ~(isAutoRotating /\ userInteracting)
    /\ Cardinality({ s \in {"auto", "user", "paused"} :
                       \/ s = "auto" /\ isAutoRotating /\ ~userInteracting
                       \/ s = "user" /\ userInteracting /\ ~isAutoRotating
                       \/ s = "paused" /\ ~isAutoRotating
                                       /\ ~userInteracting }) = 1

\* C29 witness: the user has interrupted the rotation, the camera has moved
\* on from its initial angle and the button is released; the resume timer
\* is pending
C29_Witness ==
    /\ userInteracting
    /\ ~isAutoRotating
    /\ ~isMouseDown
    /\ timers # <<>>
    /\ currentAngle > initialAngle

----------------------------------------------------------------------------
\* The toggle button (SpecCamera)

\* C30: once a handler has written the toggle button its label is 'Pause
\* Rotation' exactly when isAutoRotating is true and 'Resume Rotation'
\* exactly when it is false, and the button carries the 'user-interacting'
\* class only while userInteracting is true.
C30_ButtonReflectsState ==
    /\ toggleText # "html" =>
          toggleText = IF isAutoRotating THEN "Pause Rotation"
                       ELSE "Resume Rotation"
    /\ toggleClass => userInteracting

----------------------------------------------------------------------------
\* The meaning of radius (SpecReset)

\* C31: the radius stored at construction and restored by reset is the
\* horizontal distance of the initial camera position from the target, the
\* one updateCurrentAngle() computes, so the bookkeeping of a fresh or reset
\* animator places the camera at its initial position, and an auto-rotation
\* update that finds the camera there with that bookkeeping keeps the
\* camera's horizontal distance from the target.
C31_RadiusIsHorizontal ==
    /\ []((currentAngle = initialAngle /\ radius = initialRadius
             /\ height = initialHeight) =>
            [angle |-> Atan2Deg(currentAngle), r |-> radius, y |-> height]
                = InitialCamera)
    /\ [][( /\ AutoRotationActive
            /\ camera = InitialCamera
            /\ radius = initialRadius
            /\ \E deltaTime \in CamDeltaTimes : Update(deltaTime) )
          => camera'.r = camera.r]_vars

----------------------------------------------------------------------------
\* The info panel (SpecInteraction)

\* C32: whenever the info panel is visible a mesh is selected and the panel
\* shows that mesh's display name; the close button hides the panel and
\* changes neither selectedObject nor any material, scale or animation flag
\* nor hoveredObject.
C32_PanelShowsSelection ==
    /\ [](~panelHidden =>
             /\ selectedObject # 0
             /\ partName = DisplayName(selectedObject))
    /\ [][IMCloseInfo =>
             /\ panelHidden'
             /\ UNCHANGED <<selectedObject, hoveredObject, material, scale,
                            userData, partName>>]_vars

\* C32 witness: the panel of the selected, pulsing mesh has been closed
\* while another mesh is hovered
C32_Witness ==
    /\ NumParts >= 2
    /\ panelHidden
    /\ selectedObject = 1
    /\ partName = DisplayName(1)
    /\ material[1] = SelectionMaterial(1)
    /\ userData[1].pulsing
    /\ userData[1].pulseTime > 0
    /\ hoveredObject = 2
    /\ material[2] = HoverMaterial(2)


----------------------------------------------------------------------------
\* A drag begun during auto-rotation (SpecCamera)

\* C33: a left press on the canvas while the camera is auto-rotating finds
\* the orbit controls enabled.  The controls were created on the canvas by
\* the scene manager before the animator attached onMouseDown, so the press
\* reaches them in the state onMouseDown starts from, and they take up the
\* gesture (and dispatch 'start') only if they are enabled in that state.
C33_ControlsTakeTheDrag ==
    [][(AutoRotationActive /\ OnMouseDown(0)) => controlsEnabled]_vars
====
